---- MODULE Spec2Model ----
(***************************************************************************)
(* A model of essentia's Pool (src/base/pool.h) and of the streaming       *)
(* RhythmTransform stage that buffers its input in a Pool                  *)
(* (src/algorithms/rhythm/rhythmtransform.cpp).                            *)
(*                                                                         *)
(* The Pool is modelled at the granularity of its mutexes: one step per    *)
(* MutexLocker acquisition, one per critical section, one per release.     *)
(* Pool::add, Pool::set, Pool::clear, Pool::checkIntegrity and             *)
(* Pool::validateKey are only declared in pool.h (their bodies live in     *)
(* pool.cpp); they are modelled from the specification and from the        *)
(* documentation comments of pool.h.                                       *)
(***************************************************************************)
EXTENDS Integers, Sequences, FiniteSets, TLC

(***************************************************************************)
(* The nine sub-pools, named by the suffix of their _pool/mutex members.   *)
(***************************************************************************)
\* pool.h:79-92: the documented order in which the mutexes are to be taken
DocumentedLockOrder == <<"Real", "VectorReal", "String", "VectorString", "Array2DReal", "StereoSample", "SingleReal", "SingleString", "SingleVectorReal">>

\* a plausible slip: two MutexLocker lines of the macro swapped
GLOBAL_LOCK_swapped == <<"Real", "String", "VectorReal", "VectorString", "Array2DReal", "StereoSample", "SingleReal", "SingleString", "SingleVectorReal">>

\* pool.h:468-477: the order in which the GLOBAL_LOCK macro constructs its MutexLockers
GLOBAL_LOCK == <<"Real", "VectorReal", "String", "VectorString", "Array2DReal", "StereoSample", "SingleReal", "SingleString", "SingleVectorReal">>

Kinds == {DocumentedLockOrder[i] : i \in 1..Len(DocumentedLockOrder)}

\* pool.h:104-109: the sub-pools that map a name to a vector of values
AccKinds == {"Real", "VectorReal", "String", "VectorString", "Array2DReal", "StereoSample"}

\* pool.h:99-101: the sub-pools that map a name to one value
SingleKinds == {"SingleReal", "SingleString", "SingleVectorReal"}

\* pool.h:509-513: the types Pool::append is specialized for
AppendKinds == {"Real", "VectorReal", "String", "VectorString", "StereoSample"}

(***************************************************************************)
(* Bounds of the model.                                                    *)
(***************************************************************************)
\* at most this many elements are stored or about to be stored in the pool
MaxElems == 2

\* A descriptor name is a '.'-delimited string; it is modelled as the
\* sequence of its identifiers.
UserNames == {<<"foo">>, <<"foo", "bar">>}

\* rhythmtransform.cpp:113: the key of the stage's PoolStorage
StageKey == <<"internal", "mel_bands">>

\* the names the merged pools hold: neither is a namespace of the other
MergeNames == {<<"baz">>, <<"foo">>}

AllNames == UserNames \cup {StageKey} \cup MergeNames

Threads == {"t1", "t2"}

\* The element values a caller may pass, per type.
ElemOf(k) ==
  CASE k = "Real"             -> {1, 2}
    [] k = "VectorReal"       -> {<<1>>, <<2>>}
    [] k = "String"           -> {"a", "b"}
    [] k = "VectorString"     -> {<<"a">>, <<"b">>}
    [] k = "Array2DReal"      -> {<<<<1>>>>, <<<<2>>>>}
    [] k = "StereoSample"     -> {<<1, 2>>, <<2, 1>>}
    [] k = "SingleReal"       -> {1, 2}
    [] k = "SingleString"     -> {"a", "b"}
    [] k = "SingleVectorReal" -> {<<1>>, <<2>>}

\* the non-empty sequences of at most n elements of S
SeqsUpTo(S, n) == UNION {[1..m -> S] : m \in 1..n}

VARIABLES
  pool,      \* pool[k]: the std::map of sub-pool k, a function from the names it holds
  mutex,     \* mutex[k]: the thread that holds mutex##k, or "free"
  call,      \* call[t]: the Pool member function thread t is executing, with its arguments
  pc,        \* pc[t]: where thread t is in that function
  ret,       \* ret[t]: how t's current or last call ended ("none" while undecided)
  lockers,   \* lockers[t]: how many MutexLockers of GLOBAL_LOCK thread t has constructed
  inserted,  \* inserted[n]: the values successful add/append calls put under n, in commit order
  got,       \* got[t]: what t's last value<vector<Real> > call returned (<<>> if it threw)
  frameSize, \* the stage's parameter "frameSize" (_rtFrameSize)
  hopSize,   \* the stage's parameter "hopSize" (_rtHopSize)
  shouldStop,\* whether upstream has signalled the end of the stream
  stagePc,   \* what the stage's scheduler thread is doing
  status,    \* what the last process() call returned or threw ("none" before the first)
  pushed,    \* the frames upstream pushed since the stage was created or last reset
  batches,   \* the inputs of the compute() calls made since then
  emitted,   \* the tokens pushed on the output "rhythm" since then
  windows,   \* the frames (rhythmFrame) the compute() calls made since then have built
  offset,    \* the local variable i of compute(): the start of the next window (0 outside its loop)
  reused     \* whether the stage has been reset since it was created

poolVars == <<pool, mutex, call, pc, ret, lockers, inserted, got>>

stageVars == <<frameSize, hopSize, shouldStop, stagePc, status, pushed, batches, emitted, windows, offset, reused>>

vars == <<pool, mutex, call, pc, ret, lockers, inserted, got, frameSize, hopSize, shouldStop, stagePc, status, pushed, batches, emitted, windows, offset, reused>>

NoCall == [op |-> "none"]

EmptyMap == [n \in {} |-> 0]

EmptyPool == [k \in Kinds |-> EmptyMap]

\* std::map::find(name) != end()
Has(p, k, n) == n \in DOMAIN p[k]

\* std::map::operator[](name) = v
Put(p, k, n, v) == [p EXCEPT ![k] = [m \in (DOMAIN p[k]) \cup {n} |-> IF m = n THEN v ELSE p[k][m]]]

\* the number of elements a sub-pool entry holds
Size(k, v) == IF k \in AccKinds THEN Len(v) ELSE 1

Sum(f) ==
  LET RECURSIVE S(_)
      S(D) == IF D = {} THEN 0 ELSE LET d == CHOOSE x \in D : TRUE IN f[d] + S(D \ {d})
  IN S(DOMAIN f)

Stored(p) == Sum([kn \in {<<k, n>> \in Kinds \X AllNames : Has(p, k, n)} |-> Size(kn[1], p[kn[1]][kn[2]])])

IsStrictPrefix(a, b) == Len(a) < Len(b) /\ SubSeq(b, 1, Len(a)) = a

\* pool.h:111-112: the names of all sub-pools (the caller holds every mutex)
descriptorNamesNoLocking(p) == UNION {DOMAIN p[k] : k \in Kinds}

\* a plausible slip: only the children of the name are looked for
validateKey_childrenOnly(p, name) ==
  IF name \in descriptorNamesNoLocking(p) THEN "TypeConflict"
  ELSE IF \E m \in descriptorNamesNoLocking(p) : IsStrictPrefix(name, m)
       THEN "NamespaceConflict"
  ELSE "ok"

\* a plausible slip: only the namespaces are looked at, a name that exists
\* already is let through
validateKey_namespaceOnly(p, name) ==
  IF \E m \in descriptorNamesNoLocking(p) : IsStrictPrefix(name, m) \/ IsStrictPrefix(m, name)
  THEN "NamespaceConflict"
  ELSE "ok"

\* Pool::validateKey (declared pool.h:114-118, called with every mutex held):
\* the name must not exist yet, and must be neither a namespace of an
\* existing name nor a child of one.
validateKey(p, name) ==
  IF name \in descriptorNamesNoLocking(p) THEN "TypeConflict"
  ELSE IF \E m \in descriptorNamesNoLocking(p) : IsStrictPrefix(name, m) \/ IsStrictPrefix(m, name)
       THEN "NamespaceConflict"
  ELSE "ok"

(***************************************************************************)
(* The calls a thread may issue.                                           *)
(***************************************************************************)
Call(o, k, n, a) == [op |-> o, kind |-> k, name |-> n, arg |-> a]

\* append<T>(name, values): T one of the specialized types, or Array2D<Real>;
\* N are the names and V[k] the element values the callers draw from
AppendCalls(N, V) == UNION {{Call("append", k, n, a) : n \in N, a \in SeqsUpTo(V[k], 2)} : k \in AppendKinds \cup {"Array2DReal"}}

\* add(name, value)
AddCalls(N, V) == UNION {{Call("add", k, n, a) : n \in N, a \in V[k]} : k \in AccKinds}

\* set(name, value)
SetCalls(N, V) == UNION {{Call("set", k, n, a) : n \in N, a \in V[k]} : k \in SingleKinds}

\* value<T>(name), contains<T>(name); kind "Real" stands for T = vector<Real>,
\* which is looked up in _poolReal and then in _poolSingleVectorReal
LookupKinds == Kinds \ {"SingleVectorReal"}

ReadCalls(N, K) == {Call(o, k, n, <<>>) : o \in {"value", "contains"}, k \in K, n \in N}

GlobalCalls == {Call(o, "all", <<>>, <<>>) : o \in {"clear", "checkIntegrity"}}

CallsOf(N, V, K) == AppendCalls(N, V) \cup AddCalls(N, V) \cup SetCalls(N, V) \cup ReadCalls(N, K) \cup GlobalCalls

\* the elements a call would add to the pool
Adds(c) ==
  CASE c.op = "append" /\ c.kind \in AppendKinds -> Len(c.arg)
    [] c.op = "merge" -> Len(c.arg)
    [] c.op = "mergePool" -> Stored(c.arg)
    [] c.op \in {"add", "set"} -> 1
    [] OTHER -> 0

InFlight == Sum([t \in {u \in Threads : ret[u] = "none"} |-> Adds(call[t])])

\* where a call starts
Entry(c) ==
  CASE c.op = "append" /\ c.kind \notin AppendKinds -> "generic"
    [] c.op \in {"clear", "checkIntegrity", "merge", "mergePool"} -> "global"
    [] OTHER -> "fastLock"

InitPool ==
  /\ pool = EmptyPool
  /\ mutex = [k \in Kinds |-> "free"]
  /\ call = [t \in Threads |-> NoCall]
  /\ pc = [t \in Threads |-> "idle"]
  /\ ret = [t \in Threads |-> "idle"]
  /\ lockers = [t \in Threads |-> 0]
  /\ inserted = [n \in AllNames |-> <<>>]
  /\ got = [t \in Threads |-> <<>>]

\* a stage that has just been created
InitStage ==
  /\ shouldStop = FALSE
  /\ stagePc = "idle"
  /\ status = "none"
  /\ pushed = <<>>
  /\ batches = <<>>
  /\ emitted = <<>>
  /\ windows = <<>>
  /\ offset = 0
  /\ reused = FALSE

Init ==
  /\ InitPool
  /\ InitStage
  /\ frameSize = 2
  /\ hopSize = 2

Held(t) == {k \in Kinds : mutex[k] = t}

\* a thread calls a member function of the pool
Begin(t, c) ==
  /\ pc[t] = "idle"
  /\ Stored(pool) + InFlight + Adds(c) <= MaxElems
  /\ call' = [call EXCEPT ![t] = c]
  /\ pc' = [pc EXCEPT ![t] = Entry(c)]
  /\ ret' = [ret EXCEPT ![t] = "none"]
  /\ got' = [got EXCEPT ![t] = <<>>]
  /\ UNCHANGED <<pool, mutex, lockers, inserted>>

\* MutexLocker lock(mutex##tname): blocks until the mutex is free
FastLock(t) ==
  /\ pc[t] = "fastLock"
  /\ mutex[call[t].kind] = "free"
  /\ mutex' = [mutex EXCEPT ![call[t].kind] = t]
  /\ pc' = [pc EXCEPT ![t] = "fast"]
  /\ UNCHANGED <<pool, call, ret, lockers, inserted>>
  /\ UNCHANGED got

\* one MutexLocker of GLOBAL_LOCK: blocks until its mutex is free
GlobalLock(t) ==
  /\ pc[t] = "global"
  /\ LET k == GLOBAL_LOCK[lockers[t] + 1] IN
       /\ mutex[k] = "free"
       /\ mutex' = [mutex EXCEPT ![k] = t]
  /\ lockers' = [lockers EXCEPT ![t] = @ + 1]
  /\ pc' = [pc EXCEPT ![t] = IF lockers[t] + 1 = Len(GLOBAL_LOCK) THEN "locked" ELSE "global"]
  /\ UNCHANGED <<pool, call, ret, inserted>>
  /\ UNCHANGED got

\* leaving the scope of GLOBAL_LOCK (by return or by exception): the
\* MutexLockers are destroyed in the reverse order of their construction
Unwind(t) ==
  /\ pc[t] = "unwind"
  /\ mutex' = [mutex EXCEPT ![GLOBAL_LOCK[lockers[t]]] = "free"]
  /\ lockers' = [lockers EXCEPT ![t] = @ - 1]
  /\ pc' = [pc EXCEPT ![t] = IF lockers[t] = 1 THEN "idle" ELSE "unwind"]
  /\ call' = [call EXCEPT ![t] = IF lockers[t] = 1 THEN NoCall ELSE @]
  /\ UNCHANGED <<pool, ret, inserted>>
  /\ UNCHANGED got

\* a plausible slip: SPECIALIZE_APPEND is instantiated for Array2D<Real> too
appendGeneric_specialized(t) ==
  /\ pc[t] = "generic"
  /\ pc' = [pc EXCEPT ![t] = "fastLock"]
  /\ UNCHANGED <<pool, mutex, call, ret, lockers, inserted, got>>

\* the generic Pool::append<T>: throws without touching the pool
appendGeneric(t) ==
  /\ pc[t] = "generic"
  /\ ret' = [ret EXCEPT ![t] = "Unsupported"]
  /\ pc' = [pc EXCEPT ![t] = "idle"]
  /\ call' = [call EXCEPT ![t] = NoCall]
  /\ UNCHANGED <<pool, mutex, lockers, inserted>>
  /\ UNCHANGED got

\* a plausible slip: the new values are put in front of the stored ones
appendCopy_front(v, values) == values \o v

\* v.resize(vsize + values.size()); fastcopy(&v[vsize], &values[0], values.size())
appendCopy(v, values) == [i \in 1..(Len(v) + Len(values)) |-> IF i <= Len(v) THEN v[i] ELSE values[i - Len(v)]]

\* a plausible slip: the braces of the first block are missing, so its
\* MutexLocker lives until the function returns
appendFast_keepsLock(t) ==
  /\ pc[t] = "fast"
  /\ call[t].op = "append"
  /\ LET k == call[t].kind
         n == call[t].name
     IN  IF Has(pool, k, n)
         THEN /\ pool' = Put(pool, k, n, appendCopy(pool[k][n], call[t].arg))
              /\ inserted' = [inserted EXCEPT ![n] = @ \o call[t].arg]
              /\ ret' = [ret EXCEPT ![t] = "ok"]
              /\ pc' = [pc EXCEPT ![t] = "idle"]
              /\ call' = [call EXCEPT ![t] = NoCall]
              /\ mutex' = [mutex EXCEPT ![k] = "free"]
         ELSE /\ pc' = [pc EXCEPT ![t] = "global"]
              /\ UNCHANGED <<pool, inserted, ret, call, mutex>>
  /\ UNCHANGED lockers
  /\ UNCHANGED got

\* a plausible slip: a name that is not found is created in the first block,
\* under the type's own mutex only
appendFast_createsUnderOwnLock(t) ==
  /\ pc[t] = "fast"
  /\ call[t].op = "append"
  /\ LET k == call[t].kind
         n == call[t].name
         st == IF Has(pool, k, n) THEN "ok" ELSE validateKey(pool, n)
     IN  /\ mutex' = [mutex EXCEPT ![k] = "free"]
         /\ ret' = [ret EXCEPT ![t] = st]
         /\ IF st = "ok"
            THEN /\ pool' = Put(pool, k, n, IF Has(pool, k, n) THEN appendCopy(pool[k][n], call[t].arg) ELSE call[t].arg)
                 /\ inserted' = [inserted EXCEPT ![n] = @ \o call[t].arg]
            ELSE UNCHANGED <<pool, inserted>>
  /\ pc' = [pc EXCEPT ![t] = "idle"]
  /\ call' = [call EXCEPT ![t] = NoCall]
  /\ UNCHANGED lockers
  /\ UNCHANGED got

\* the first block of the specialized append: the name is looked up under the
\* type's own mutex; if found the values are copied behind the stored ones and
\* the call returns, else the mutex is released and GLOBAL_LOCK follows
appendFast(t) ==
  /\ pc[t] = "fast"
  /\ call[t].op = "append"
  /\ LET k == call[t].kind
         n == call[t].name
     IN  /\ mutex' = [mutex EXCEPT ![k] = "free"]
         /\ IF Has(pool, k, n)
            THEN /\ pool' = Put(pool, k, n, appendCopy(pool[k][n], call[t].arg))
                 /\ inserted' = [inserted EXCEPT ![n] = @ \o call[t].arg]
                 /\ ret' = [ret EXCEPT ![t] = "ok"]
                 /\ pc' = [pc EXCEPT ![t] = "idle"]
                 /\ call' = [call EXCEPT ![t] = NoCall]
            ELSE /\ pc' = [pc EXCEPT ![t] = "global"]
                 /\ UNCHANGED <<pool, inserted, ret, call>>
  /\ UNCHANGED lockers
  /\ UNCHANGED got

\* a plausible slip: the call of validateKey is missing
appendSlow_noValidate(t) ==
  /\ pc[t] = "locked"
  /\ call[t].op = "append"
  /\ ret' = [ret EXCEPT ![t] = "ok"]
  /\ pool' = Put(pool, call[t].kind, call[t].name, call[t].arg)
  /\ inserted' = [inserted EXCEPT ![call[t].name] = @ \o call[t].arg]
  /\ pc' = [pc EXCEPT ![t] = "unwind"]
  /\ UNCHANGED <<mutex, call, lockers>>
  /\ UNCHANGED got

\* the end of the specialized append, under GLOBAL_LOCK:
\* validateKey(name); _pool##tname[name] = values;
appendSlow(t) ==
  /\ pc[t] = "locked"
  /\ call[t].op = "append"
  /\ LET k == call[t].kind
         n == call[t].name
         st == validateKey(pool, n)
     IN  /\ ret' = [ret EXCEPT ![t] = st]
         /\ IF st = "ok"
            THEN /\ pool' = Put(pool, k, n, call[t].arg)
                 /\ inserted' = [inserted EXCEPT ![n] = @ \o call[t].arg]
            ELSE UNCHANGED <<pool, inserted>>
  /\ pc' = [pc EXCEPT ![t] = "unwind"]
  /\ UNCHANGED <<mutex, call, lockers>>
  /\ UNCHANGED got

\* Pool::add, first part: push_back under the type's own mutex if the name exists
addFast(t) ==
  /\ pc[t] = "fast"
  /\ call[t].op = "add"
  /\ LET k == call[t].kind
         n == call[t].name
     IN  /\ mutex' = [mutex EXCEPT ![k] = "free"]
         /\ IF Has(pool, k, n)
            THEN /\ pool' = Put(pool, k, n, Append(pool[k][n], call[t].arg))
                 /\ inserted' = [inserted EXCEPT ![n] = Append(@, call[t].arg)]
                 /\ ret' = [ret EXCEPT ![t] = "ok"]
                 /\ pc' = [pc EXCEPT ![t] = "idle"]
                 /\ call' = [call EXCEPT ![t] = NoCall]
            ELSE /\ pc' = [pc EXCEPT ![t] = "global"]
                 /\ UNCHANGED <<pool, inserted, ret, call>>
  /\ UNCHANGED lockers
  /\ UNCHANGED got

\* Pool::add, second part: the name is new to the sub-pool
addSlow(t) ==
  /\ pc[t] = "locked"
  /\ call[t].op = "add"
  /\ LET k == call[t].kind
         n == call[t].name
         st == validateKey(pool, n)
     IN  /\ ret' = [ret EXCEPT ![t] = st]
         /\ IF st = "ok"
            THEN /\ pool' = Put(pool, k, n, <<call[t].arg>>)
                 /\ inserted' = [inserted EXCEPT ![n] = Append(@, call[t].arg)]
            ELSE UNCHANGED <<pool, inserted>>
  /\ pc' = [pc EXCEPT ![t] = "unwind"]
  /\ UNCHANGED <<mutex, call, lockers>>
  /\ UNCHANGED got

\* Pool::set, first part: a name already set is overwritten
setFast(t) ==
  /\ pc[t] = "fast"
  /\ call[t].op = "set"
  /\ LET k == call[t].kind
         n == call[t].name
     IN  /\ mutex' = [mutex EXCEPT ![k] = "free"]
         /\ IF Has(pool, k, n)
            THEN /\ pool' = Put(pool, k, n, call[t].arg)
                 /\ ret' = [ret EXCEPT ![t] = "ok"]
                 /\ pc' = [pc EXCEPT ![t] = "idle"]
                 /\ call' = [call EXCEPT ![t] = NoCall]
            ELSE /\ pc' = [pc EXCEPT ![t] = "global"]
                 /\ UNCHANGED <<pool, ret, call>>
  /\ UNCHANGED <<lockers, inserted>>
  /\ UNCHANGED got

\* a plausible slip: set() does not look for accumulated data of the name
setSlow_noAccCheck(t) ==
  /\ pc[t] = "locked"
  /\ call[t].op = "set"
  /\ LET k == call[t].kind
         n == call[t].name
         st == validateKey(pool, n)
     IN  /\ ret' = [ret EXCEPT ![t] = st]
         /\ IF st = "ok"
            THEN pool' = Put(pool, k, n, call[t].arg)
            ELSE UNCHANGED pool
  /\ pc' = [pc EXCEPT ![t] = "unwind"]
  /\ UNCHANGED <<mutex, call, lockers, inserted>>
  /\ UNCHANGED got

\* Pool::set, second part: the name is new to the single-value sub-pool
setSlow(t) ==
  /\ pc[t] = "locked"
  /\ call[t].op = "set"
  /\ LET k == call[t].kind
         n == call[t].name
         st == IF \E a \in AccKinds : Has(pool, a, n) THEN "AlreadyAccumulated" ELSE validateKey(pool, n)
     IN  /\ ret' = [ret EXCEPT ![t] = st]
         /\ IF st = "ok"
            THEN pool' = Put(pool, k, n, call[t].arg)
            ELSE UNCHANGED pool
  /\ pc' = [pc EXCEPT ![t] = "unwind"]
  /\ UNCHANGED <<mutex, call, lockers, inserted>>
  /\ UNCHANGED got

\* what a successful lookup and a failed one answer
Found(c) == IF c.op = "value" THEN "ok" ELSE "true"

Missing(c) == IF c.op = "value" THEN "NotFound" ELSE "false"

\* value() returns a reference to the stored vector (return result->second),
\* contains() only a boolean
Returned(c, stored) == IF c.op = "value" THEN stored ELSE <<>>

\* a plausible slip: the mutex is locked by hand and not unlocked on return
lookupFast_keepsLock(t) ==
  /\ pc[t] = "fast"
  /\ call[t].op \in {"value", "contains"}
  /\ call[t].kind # "Real"
  /\ ret' = [ret EXCEPT ![t] = IF Has(pool, call[t].kind, call[t].name) THEN Found(call[t]) ELSE Missing(call[t])]
  /\ pc' = [pc EXCEPT ![t] = "idle"]
  /\ call' = [call EXCEPT ![t] = NoCall]
  /\ UNCHANGED <<pool, mutex, lockers, inserted>>
  /\ UNCHANGED got

\* SPECIALIZE_VALUE / SPECIALIZE_CONTAINS: one find under the type's mutex
lookupFast(t) ==
  /\ pc[t] = "fast"
  /\ call[t].op \in {"value", "contains"}
  /\ call[t].kind # "Real"
  /\ mutex' = [mutex EXCEPT ![call[t].kind] = "free"]
  /\ ret' = [ret EXCEPT ![t] = IF Has(pool, call[t].kind, call[t].name) THEN Found(call[t]) ELSE Missing(call[t])]
  /\ pc' = [pc EXCEPT ![t] = "idle"]
  /\ call' = [call EXCEPT ![t] = NoCall]
  /\ UNCHANGED <<pool, lockers, inserted>>
  /\ UNCHANGED got

\* a plausible slip: vector<Real> is looked up like the types of the macro,
\* in _poolReal only
lookupReal_macro(t) ==
  /\ pc[t] = "fast"
  /\ call[t].op \in {"value", "contains"}
  /\ call[t].kind = "Real"
  /\ mutex' = [mutex EXCEPT !["Real"] = "free"]
  /\ ret' = [ret EXCEPT ![t] = IF Has(pool, "Real", call[t].name) THEN Found(call[t]) ELSE Missing(call[t])]
  /\ got' = [got EXCEPT ![t] = IF Has(pool, "Real", call[t].name) THEN Returned(call[t], pool["Real"][call[t].name]) ELSE <<>>]
  /\ pc' = [pc EXCEPT ![t] = "idle"]
  /\ call' = [call EXCEPT ![t] = NoCall]
  /\ UNCHANGED <<pool, lockers, inserted>>

\* value/contains<vector<Real> >, first block: find in _poolReal under mutexReal
lookupReal(t) ==
  /\ pc[t] = "fast"
  /\ call[t].op \in {"value", "contains"}
  /\ call[t].kind = "Real"
  /\ mutex' = [mutex EXCEPT !["Real"] = "free"]
  /\ IF Has(pool, "Real", call[t].name)
     THEN /\ ret' = [ret EXCEPT ![t] = Found(call[t])]
          /\ got' = [got EXCEPT ![t] = Returned(call[t], pool["Real"][call[t].name])]
          /\ pc' = [pc EXCEPT ![t] = "idle"]
          /\ call' = [call EXCEPT ![t] = NoCall]
     ELSE /\ pc' = [pc EXCEPT ![t] = "secondLock"]
          /\ UNCHANGED <<ret, call, got>>
  /\ UNCHANGED <<pool, lockers, inserted>>

\* value/contains<vector<Real> >, second block: MutexLocker lock(mutexSingleVectorReal)
SecondLock(t) ==
  /\ pc[t] = "secondLock"
  /\ mutex["SingleVectorReal"] = "free"
  /\ mutex' = [mutex EXCEPT !["SingleVectorReal"] = t]
  /\ pc' = [pc EXCEPT ![t] = "second"]
  /\ UNCHANGED <<pool, call, ret, lockers, inserted>>
  /\ UNCHANGED got

\* value/contains<vector<Real> >, second block: find in _poolSingleVectorReal
lookupSingleVectorReal(t) ==
  /\ pc[t] = "second"
  /\ mutex' = [mutex EXCEPT !["SingleVectorReal"] = "free"]
  /\ ret' = [ret EXCEPT ![t] = IF Has(pool, "SingleVectorReal", call[t].name) THEN Found(call[t]) ELSE Missing(call[t])]
  /\ got' = [got EXCEPT ![t] = IF Has(pool, "SingleVectorReal", call[t].name) THEN Returned(call[t], pool["SingleVectorReal"][call[t].name]) ELSE <<>>]
  /\ pc' = [pc EXCEPT ![t] = "idle"]
  /\ call' = [call EXCEPT ![t] = NoCall]
  /\ UNCHANGED <<pool, lockers, inserted>>

\* Pool::clear under GLOBAL_LOCK: every sub-pool is emptied
clear(t) ==
  /\ pc[t] = "locked"
  /\ call[t].op = "clear"
  /\ pool' = EmptyPool
  /\ inserted' = [n \in AllNames |-> <<>>]
  /\ ret' = [ret EXCEPT ![t] = "ok"]
  /\ pc' = [pc EXCEPT ![t] = "unwind"]
  /\ UNCHANGED <<mutex, call, lockers>>
  /\ UNCHANGED got

\* Pool::checkIntegrity under GLOBAL_LOCK: throws if a name is in two sub-pools
checkIntegrity(t) ==
  /\ pc[t] = "locked"
  /\ call[t].op = "checkIntegrity"
  /\ ret' = [ret EXCEPT ![t] = IF \E n \in AllNames : Cardinality({k \in Kinds : Has(pool, k, n)}) > 1 THEN "DuplicateKind" ELSE "ok"]
  /\ pc' = [pc EXCEPT ![t] = "unwind"]
  /\ UNCHANGED <<pool, mutex, call, lockers, inserted>>
  /\ UNCHANGED got

\* one step of thread t inside a call
Step(t) ==
  \/ FastLock(t)
  \/ GlobalLock(t)
  \/ Unwind(t)
  \/ appendGeneric(t)
  \/ appendFast(t)
  \/ appendSlow(t)
  \/ addFast(t)
  \/ addSlow(t)
  \/ setFast(t)
  \/ setSlow(t)
  \/ lookupFast(t)
  \/ lookupReal(t)
  \/ SecondLock(t)
  \/ lookupSingleVectorReal(t)
  \/ clear(t)
  \/ checkIntegrity(t)

AllCalls == CallsOf(UserNames, [k \in Kinds |-> ElemOf(k)], LookupKinds)

\* The store used through its interface by one caller at a time: every call
\* returns before the next one starts.
Next ==
  \/ \E c \in AllCalls : Begin("t1", c) /\ UNCHANGED stageVars
  \/ Step("t1") /\ UNCHANGED stageVars

Spec == Init /\ [][Next]_vars

(***************************************************************************)
(* Pool::merge (declared and documented in pool.h:200-249)                 *)
(***************************************************************************)
\* at most this many elements are in the pool after a merge
MaxMerged == 4

\* the merge types of pool.h:207-217, and "" for none
Policies == {"", "replace", "append", "interleave"}

\* the types of the merged descriptors
MergeKinds == {"Real", "String"}

\* merge(name, value, type)
MergeCall(policy, k, n, a) == [op |-> "merge", kind |-> k, name |-> n, arg |-> a, policy |-> policy]

\* merge(p, type)
MergePoolCall(policy, other) == [op |-> "mergePool", kind |-> "all", name |-> <<>>, arg |-> other, policy |-> policy]

\* a pool that holds v under n in sub-pool k, for every <<k, n, v>> of E
PoolOf(E) == [k \in Kinds |-> [n \in {e[2] : e \in {d \in E : d[1] = k}} |-> (CHOOSE e \in E : e[1] = k /\ e[2] = n)[3]]]

\* the pools given to merge(p, type): one or two descriptors of one element
OtherPools ==
  {PoolOf({<<k, n, <<CHOOSE v \in ElemOf(k) : v # CHOOSE w \in ElemOf(k) : TRUE>>>>}) : k \in MergeKinds, n \in MergeNames}
  \cup {PoolOf({<<k1, <<"baz">>, <<CHOOSE v \in ElemOf(k1) : TRUE>>>>, <<k2, <<"foo">>, <<CHOOSE v \in ElemOf(k2) : TRUE>>>>}) : k1 \in MergeKinds, k2 \in MergeKinds}

MergeCalls ==
  UNION {{MergeCall(policy, k, n, a) : policy \in Policies, n \in MergeNames, a \in SeqsUpTo(ElemOf(k), 2)} : k \in MergeKinds}
  \cup {MergePoolCall(policy, other) : policy \in Policies, other \in OtherPools}

\* the pool without the descriptor n
Remove(p, n) == [k \in Kinds |-> [m \in (DOMAIN p[k]) \ {n} |-> p[k][m]]]

\* a plausible slip: the new element comes before the stored one
Interleave_newFirst(a, b) ==
  LET RECURSIVE Zip(_, _)
      Zip(x, y) ==
        IF x = <<>> THEN y
        ELSE IF y = <<>> THEN x
        ELSE <<Head(y), Head(x)>> \o Zip(Tail(x), Tail(y))
  IN Zip(a, b)

\* one element of the stored vector, one of the new one, and so on; what is
\* left of the longer one comes last
Interleave(a, b) ==
  LET RECURSIVE Zip(_, _)
      Zip(x, y) ==
        IF x = <<>> THEN y
        ELSE IF y = <<>> THEN x
        ELSE <<Head(x), Head(y)>> \o Zip(Tail(x), Tail(y))
  IN Zip(a, b)

\* a plausible slip: "append" does not compare the types
MergeOne_appendAnyKind(p, policy, k, n, v) ==
  IF n \notin descriptorNamesNoLocking(p)
  THEN LET st == validateKey(p, n) IN [st |-> st, pool |-> IF st = "ok" THEN Put(p, k, n, v) ELSE p]
  ELSE CASE policy = "" -> [st |-> "ContractViolation", pool |-> p]
         [] policy = "replace" -> [st |-> "ok", pool |-> Put(Remove(p, n), k, n, v)]
         [] policy = "append" -> [st |-> "ok", pool |-> Put(p, k, n, (IF Has(p, k, n) THEN p[k][n] ELSE <<>>) \o v)]
         [] policy = "interleave" ->
              IF Has(p, k, n) THEN [st |-> "ok", pool |-> Put(p, k, n, Interleave(p[k][n], v))]
              ELSE [st |-> "TypeConflict", pool |-> p]

\* a plausible slip: without a merge type an existing descriptor is replaced
MergeOne_defaultReplaces(p, policy, k, n, v) ==
  IF n \notin descriptorNamesNoLocking(p)
  THEN LET st == validateKey(p, n) IN [st |-> st, pool |-> IF st = "ok" THEN Put(p, k, n, v) ELSE p]
  ELSE CASE policy \in {"", "replace"} -> [st |-> "ok", pool |-> Put(Remove(p, n), k, n, v)]
         [] policy = "append" ->
              IF Has(p, k, n) THEN [st |-> "ok", pool |-> Put(p, k, n, p[k][n] \o v)]
              ELSE [st |-> "TypeConflict", pool |-> p]
         [] policy = "interleave" ->
              IF Has(p, k, n) THEN [st |-> "ok", pool |-> Put(p, k, n, Interleave(p[k][n], v))]
              ELSE [st |-> "TypeConflict", pool |-> p]

\* merging the vector v of type k into the descriptor n of pool p: how the
\* call ends and the pool it leaves
MergeOne(p, policy, k, n, v) ==
  IF n \notin descriptorNamesNoLocking(p)
  THEN LET st == validateKey(p, n) IN [st |-> st, pool |-> IF st = "ok" THEN Put(p, k, n, v) ELSE p]
  ELSE CASE policy = "" -> [st |-> "ContractViolation", pool |-> p]
         [] policy = "replace" -> [st |-> "ok", pool |-> Put(Remove(p, n), k, n, v)]
         [] policy = "append" ->
              IF Has(p, k, n) THEN [st |-> "ok", pool |-> Put(p, k, n, p[k][n] \o v)]
              ELSE [st |-> "TypeConflict", pool |-> p]
         [] policy = "interleave" ->
              IF Has(p, k, n) THEN [st |-> "ok", pool |-> Put(p, k, n, Interleave(p[k][n], v))]
              ELSE [st |-> "TypeConflict", pool |-> p]

\* the order in which merge(p, type) goes through the names of p
NameOrder == <<<<"baz">>, <<"foo">>>>

\* the descriptors of the pool other, sub-pool by sub-pool and name by name
EntriesOf(other) ==
  LET all == [i \in 1..(Len(DocumentedLockOrder) * Len(NameOrder)) |->
                <<DocumentedLockOrder[((i - 1) \div Len(NameOrder)) + 1], NameOrder[((i - 1) % Len(NameOrder)) + 1]>>]
  IN SelectSeq(all, LAMBDA e : Has(other, e[1], e[2]))

\* merge(p, type): every descriptor of p is merged in turn; the first failure
\* ends the call
RECURSIVE MergeAll(_, _, _, _)
MergeAll(p, policy, other, es) ==
  IF es = <<>> THEN [st |-> "ok", pool |-> p]
  ELSE LET r == MergeOne(p, policy, es[1][1], es[1][2], other[es[1][1]][es[1][2]])
       IN IF r.st # "ok" THEN r ELSE MergeAll(r.pool, policy, other, Tail(es))

\* what add and append have put under every name, read back from the pool
Mirror(p) == [n \in AllNames |-> IF \E k \in AccKinds : Has(p, k, n) THEN p[CHOOSE k \in AccKinds : Has(p, k, n)][n] ELSE <<>>]

\* merge(name, value, type) under GLOBAL_LOCK
merge(t) ==
  /\ pc[t] = "locked"
  /\ call[t].op = "merge"
  /\ LET r == MergeOne(pool, call[t].policy, call[t].kind, call[t].name, call[t].arg)
     IN  /\ ret' = [ret EXCEPT ![t] = r.st]
         /\ pool' = r.pool
         /\ inserted' = Mirror(r.pool)
  /\ pc' = [pc EXCEPT ![t] = "unwind"]
  /\ UNCHANGED <<mutex, call, lockers, got>>

\* merge(p, type) under GLOBAL_LOCK
mergePool(t) ==
  /\ pc[t] = "locked"
  /\ call[t].op = "mergePool"
  /\ LET r == MergeAll(pool, call[t].policy, call[t].arg, EntriesOf(call[t].arg))
     IN  /\ ret' = [ret EXCEPT ![t] = r.st]
         /\ pool' = r.pool
         /\ inserted' = Mirror(r.pool)
  /\ pc' = [pc EXCEPT ![t] = "unwind"]
  /\ UNCHANGED <<mutex, call, lockers, got>>

\* a thread calls merge
beginMerge(t, c) ==
  /\ pc[t] = "idle"
  /\ Stored(pool) + Adds(c) <= MaxMerged
  /\ call' = [call EXCEPT ![t] = c]
  /\ pc' = [pc EXCEPT ![t] = Entry(c)]
  /\ ret' = [ret EXCEPT ![t] = "none"]
  /\ UNCHANGED <<pool, mutex, lockers, inserted, got>>

\* Pools that are filled and combined by merge calls, one call at a time.
MergeNext ==
  \/ \E c \in MergeCalls : beginMerge("t1", c) /\ UNCHANGED stageVars
  \/ GlobalLock("t1") /\ UNCHANGED stageVars
  \/ merge("t1") /\ UNCHANGED stageVars
  \/ mergePool("t1") /\ UNCHANGED stageVars
  \/ Unwind("t1") /\ UNCHANGED stageVars

MergeSpec == Init /\ [][MergeNext]_vars

(***************************************************************************)
(* standard::RhythmTransform::compute (rhythmtransform.cpp:41-95)          *)
(***************************************************************************)
\* The Windowing algorithm _w (not part of these sources): the frame times a
\* symmetric window, here with the integer weights 2, 4, .., 4, 2.
Windowing(frame) == [j \in 1..Len(frame) |-> 2 * (IF j <= Len(frame) + 1 - j THEN j ELSE Len(frame) + 1 - j) * frame[j]]

\* cos and sin of a multiple m of a quarter turn
Cos4(m) == <<1, 0, -1, 0>>[(m % 4) + 1]

Sin4(m) == <<0, 1, 0, -1>>[(m % 4) + 1]

SumTo(n, f) ==
  LET RECURSIVE S(_)
      S(j) == IF j > n THEN 0 ELSE f[j] + S(j + 1)
  IN S(1)

\* The Spectrum algorithm _spec (not part of these sources): the magnitudes of
\* bins 0..N/2 of the DFT of a frame of N samples (N a divisor of 4 here, so
\* that the squared magnitudes are integers). A magnitude is written as the
\* record of its square: [sqrt |-> r] is the real number sqrt(r).
Spectrum(frame) ==
  LET N == Len(frame)
      Re(k) == SumTo(N, [j \in 1..N |-> frame[j] * Cos4((4 \div N) * (j - 1) * k)])
      Im(k) == SumTo(N, [j \in 1..N |-> frame[j] * Sin4((4 \div N) * (j - 1) * k)])
  IN [b \in 1..((N \div 2) + 1) |-> [sqrt |-> Re(b - 1) * Re(b - 1) + Im(b - 1) * Im(b - 1)]]

\* rhythmSpectrum[bin]*rhythmSpectrum[bin]
Square(m) == m.sqrt

\* a plausible slip: the difference is taken between neighbouring bands of a
\* frame instead of between neighbouring frames of a band
bandsDerivative_alongBands(bands) ==
  LET nFrames == Len(bands)
      nBands == Len(bands[1])
  IN [band \in 1..nBands |-> [frame \in 1..nFrames |-> IF band = 1 THEN 0 ELSE bands[frame][band] - bands[frame][band - 1]]]

\* rhythmtransform.cpp:48-57: derive and transpose
bandsDerivative(bands) ==
  LET nFrames == Len(bands)
      nBands == Len(bands[1])
  IN [band \in 1..nBands |-> [frame \in 1..nFrames |-> IF frame = 1 THEN 0 ELSE bands[frame][band] - bands[frame - 1][band]]]

\* a plausible slip: past the end the last value is repeated
rhythmFrame_repeatLast(deriv, nFrames, i, size) == [j \in 1..size |-> IF i + (j - 1) < nFrames THEN deriv[i + j] ELSE deriv[nFrames]]

\* rhythmtransform.cpp:68-74: the frame of one band at offset i, zero padded
rhythmFrame(deriv, nFrames, i, size) == [j \in 1..size |-> IF i + (j - 1) < nFrames THEN deriv[i + j] ELSE 0]

\* rhythmtransform.cpp:66-89: bandSpectrum is created once per offset i and
\* every band writes its squared spectrum into it
bandSpectrumAt(bands, i, size) ==
  LET nFrames == Len(bands)
      nBands == Len(bands[1])
      deriv == bandsDerivative(bands)
      RECURSIVE Bands(_, _)
      Bands(band, bandSpectrum) ==
        IF band > nBands THEN bandSpectrum
        ELSE LET rhythmSpectrum == Spectrum(Windowing(rhythmFrame(deriv[band], nFrames, i, size)))
             IN Bands(band + 1, [bin \in 1..Len(bandSpectrum) |-> IF bin <= Len(rhythmSpectrum) THEN Square(rhythmSpectrum[bin]) ELSE bandSpectrum[bin]])
  IN Bands(1, [bin \in 1..((size \div 2) + 1) |-> 0])

\* the loop of the original implementation, which the comment of
\* rhythmtransform.cpp:60-64 recalls: while (i+_rtFrameSize<nFrames)
loopOffsets_original(nFrames, size, hop) ==
  LET RECURSIVE Loop(_, _)
      Loop(i, offsets) ==
        IF i + size < nFrames THEN Loop(i + hop, Append(offsets, i))
        ELSE offsets
  IN Loop(0, <<>>)

\* rhythmtransform.cpp:59-65, 91: int i = 0; while (i<nFrames) { .. i += _rtHopSize; }
\* the values of i for which the body runs
loopOffsets(nFrames, size, hop) ==
  LET RECURSIVE Loop(_, _)
      Loop(i, offsets) ==
        IF i < nFrames THEN Loop(i + hop, Append(offsets, i))
        ELSE offsets
  IN Loop(0, <<>>)

\* rhythmtransform.cpp:59-92: one output frame per run of the loop body
compute(bands, size, hop) ==
  LET offsets == loopOffsets(Len(bands), size, hop)
  IN [w \in 1..Len(offsets) |-> bandSpectrumAt(bands, offsets[w], size)]

\* rhythmtransform.cpp:67-74: the frames the loop builds, one per run of the
\* body and band, with the offset i of the run
rhythmFrames(bands, size, hop) ==
  LET offsets == loopOffsets(Len(bands), size, hop)
      deriv == bandsDerivative(bands)
  IN [w \in 1..Len(offsets) |-> [i |-> offsets[w], frame |-> [band \in 1..Len(bands[1]) |-> rhythmFrame(deriv[band], Len(bands), offsets[w], size)]]]

\* the values of the parameters "frameSize" and "hopSize"
FrameSizes == {1, 2, 4}

HopSizes == {1, 2, 3}

\* at most this many frames of mel bands are given to compute()
MaxBatch == 3

\* at most this many mel bands per frame
MaxBands == 2

\* the scenario of 3 bands and 4 frames
Scenario == <<<<1, 2, 3>>, <<2, 2, 3>>, <<4, 2, 5>>, <<4, 2, 5>>>>

\* the inputs "melBands" given to compute(): at least one frame
ComputeInputs == {Scenario} \cup UNION {[1..nFrames -> [1..nBands -> {0, 1}]] : nFrames \in 1..MaxBatch, nBands \in 1..MaxBands}

(***************************************************************************)
(* standard::RhythmTransform on its own: configure(), then compute() on    *)
(* the input "melBands" (pushed), which fills the output "rhythm"          *)
(* (emitted).                                                              *)
(***************************************************************************)
ComputeInit ==
  /\ InitPool
  /\ shouldStop = FALSE
  /\ stagePc = "idle"
  /\ status = "none"
  /\ batches = <<>>
  /\ emitted = <<>>
  /\ windows = <<>>
  /\ offset = 0
  /\ reused = FALSE
  /\ frameSize \in FrameSizes
  /\ hopSize \in HopSizes
  /\ pushed \in ComputeInputs

\* RhythmTransform::compute()
computeBatch ==
  /\ stagePc = "idle"
  /\ batches' = <<pushed>>
  /\ emitted' = <<compute(pushed, frameSize, hopSize)>>
  /\ windows' = rhythmFrames(pushed, frameSize, hopSize)
  /\ stagePc' = "computed"
  /\ UNCHANGED <<pool, mutex, call, pc, ret, lockers, inserted, got>>
  /\ UNCHANGED <<offset, frameSize, hopSize, shouldStop, status, pushed, reused>>

ComputeNext == computeBatch

ComputeSpec == ComputeInit /\ [][ComputeNext]_vars

\* a plausible slip: the statement i += _rtHopSize is missing
loopBody_noHop ==
  /\ stagePc = "loop"
  /\ offset < Len(pushed)
  /\ emitted' = <<Append(emitted[1], bandSpectrumAt(pushed, offset, frameSize))>>
  /\ windows' = <<[i |-> offset, frame |-> [band \in 1..Len(pushed[1]) |-> rhythmFrame(bandsDerivative(pushed)[band], Len(pushed), offset, frameSize)]]>>
  /\ UNCHANGED <<pool, mutex, call, pc, ret, lockers, inserted, got>>
  /\ UNCHANGED <<offset, frameSize, hopSize, shouldStop, stagePc, status, pushed, batches, reused>>

\* rhythmtransform.cpp:41-59: compute() up to the loop: int i = 0
loopEnter ==
  /\ stagePc = "idle"
  /\ batches' = <<pushed>>
  /\ emitted' = <<<<>>>>
  /\ offset' = 0
  /\ stagePc' = "loop"
  /\ UNCHANGED <<pool, mutex, call, pc, ret, lockers, inserted, got>>
  /\ UNCHANGED <<windows, frameSize, hopSize, shouldStop, status, pushed, reused>>

\* rhythmtransform.cpp:65-91: one run of the body of while (i<nFrames):
\* the frames are built, output.push_back(bandSpectrum), i += _rtHopSize
loopBody ==
  /\ stagePc = "loop"
  /\ offset < Len(pushed)
  /\ emitted' = <<Append(emitted[1], bandSpectrumAt(pushed, offset, frameSize))>>
  /\ windows' = Append(windows, [i |-> offset, frame |-> [band \in 1..Len(pushed[1]) |-> rhythmFrame(bandsDerivative(pushed)[band], Len(pushed), offset, frameSize)]])
  /\ offset' = offset + hopSize
  /\ UNCHANGED <<pool, mutex, call, pc, ret, lockers, inserted, got>>
  /\ UNCHANGED <<frameSize, hopSize, shouldStop, stagePc, status, pushed, batches, reused>>

\* rhythmtransform.cpp:65, 92-95: the test i<nFrames fails, compute() returns
loopExit ==
  /\ stagePc = "loop"
  /\ ~(offset < Len(pushed))
  /\ stagePc' = "computed"
  /\ UNCHANGED <<pool, mutex, call, pc, ret, lockers, inserted, got>>
  /\ UNCHANGED <<windows, offset, frameSize, hopSize, shouldStop, status, pushed, batches, emitted, reused>>

\* at most this many frames are given to the compute() that is run statement
\* by statement
MaxLoopFrames == 6

\* its inputs: the frames of the scenario, repeated, 1 to MaxLoopFrames of them
LoopInputs == {[f \in 1..nFrames |-> Scenario[((f - 1) % Len(Scenario)) + 1]] : nFrames \in 1..MaxLoopFrames}

LoopInit ==
  /\ InitPool
  /\ shouldStop = FALSE
  /\ stagePc = "idle"
  /\ status = "none"
  /\ batches = <<>>
  /\ emitted = <<>>
  /\ windows = <<>>
  /\ offset = 0
  /\ reused = FALSE
  /\ frameSize \in FrameSizes
  /\ hopSize \in HopSizes
  /\ pushed \in LoopInputs

LoopNext ==
  \/ loopEnter
  \/ loopBody
  \/ loopExit

\* compute() run statement by statement; a thread that runs compute() goes on
\* running it
LoopSpec == LoopInit /\ [][LoopNext]_vars /\ WF_vars(LoopNext)

(***************************************************************************)
(* streaming::RhythmTransform (rhythmtransform.cpp:108-148)                *)
(* The stage buffers the frames of its input "melBands" in its own Pool    *)
(* under StageKey, through a PoolStorage; its scheduler thread is "t1".    *)
(***************************************************************************)
\* at most this many frames are pushed between two resets
MaxFrames == 3

\* the mel band frames upstream may push (two bands)
Frames == {<<0, 1>>, <<1, 0>>, <<2, 2>>}

StageInit ==
  /\ InitPool
  /\ InitStage
  /\ frameSize \in FrameSizes
  /\ hopSize \in HopSizes

\* the stage's thread calls a member function of the stage's pool
PoolCall(c) ==
  /\ pc["t1"] = "idle"
  /\ call' = [call EXCEPT !["t1"] = c]
  /\ pc' = [pc EXCEPT !["t1"] = Entry(c)]
  /\ ret' = [ret EXCEPT !["t1"] = "none"]
  /\ UNCHANGED <<pool, mutex, lockers, inserted, got>>

\* PoolStorage (rhythmtransform.cpp:113-116): a frame arriving on "melBands"
\* is added to the pool under StageKey
push(frame) ==
  /\ stagePc = "idle"
  /\ ~shouldStop
  /\ Len(pushed) < MaxFrames
  /\ PoolCall(Call("add", "VectorReal", StageKey, frame))
  /\ stagePc' = "push"
  /\ pushed' = Append(pushed, frame)
  /\ UNCHANGED <<windows, offset, frameSize, hopSize, shouldStop, status, batches, emitted, reused>>

\* the add of the PoolStorage has returned
pushDone ==
  /\ stagePc = "push"
  /\ pc["t1"] = "idle"
  /\ stagePc' = "idle"
  /\ UNCHANGED <<pool, mutex, call, pc, ret, lockers, inserted, got>>
  /\ UNCHANGED <<windows, offset, frameSize, hopSize, shouldStop, status, pushed, batches, emitted, reused>>

\* upstream signals that no more input will arrive
endOfStream ==
  /\ stagePc = "idle"
  /\ ~shouldStop
  /\ shouldStop' = TRUE
  /\ UNCHANGED <<pool, mutex, call, pc, ret, lockers, inserted, got>>
  /\ UNCHANGED <<windows, offset, frameSize, hopSize, stagePc, status, pushed, batches, emitted, reused>>

\* the scheduler may call process(): not again after process() has returned
\* OK or thrown, until the stage is reset
MayProcess == stagePc = "idle" /\ status \in {"none", "PASS"}

\* a plausible slip: the wrong status is returned while the stream goes on
processPass_returnsOK ==
  /\ MayProcess
  /\ ~shouldStop
  /\ status' = "OK"
  /\ UNCHANGED <<pool, mutex, call, pc, ret, lockers, inserted, got>>
  /\ UNCHANGED <<windows, offset, frameSize, hopSize, shouldStop, stagePc, pushed, batches, emitted, reused>>

\* a plausible slip: the test of shouldStop() is inverted, so process() goes
\* on to the batch computation while the stream goes on
processPass_early ==
  /\ MayProcess
  /\ ~shouldStop
  /\ PoolCall(Call("value", "VectorReal", StageKey, <<>>))
  /\ stagePc' = "value"
  /\ UNCHANGED <<windows, offset, frameSize, hopSize, shouldStop, status, pushed, batches, emitted, reused>>

\* rhythmtransform.cpp:130: if (!shouldStop()) return PASS;
processPass ==
  /\ MayProcess
  /\ ~shouldStop
  /\ status' = "PASS"
  /\ UNCHANGED <<pool, mutex, call, pc, ret, lockers, inserted, got>>
  /\ UNCHANGED <<windows, offset, frameSize, hopSize, shouldStop, stagePc, pushed, batches, emitted, reused>>

\* rhythmtransform.cpp:132: _pool.value<vector<vector<Real> > >("internal.mel_bands")
processValue ==
  /\ MayProcess
  /\ shouldStop
  /\ PoolCall(Call("value", "VectorReal", StageKey, <<>>))
  /\ stagePc' = "value"
  /\ UNCHANGED <<windows, offset, frameSize, hopSize, shouldStop, status, pushed, batches, emitted, reused>>

\* value() has returned a reference to the stored vector, or has thrown: the
\* exception leaves process()
processValueDone ==
  /\ stagePc = "value"
  /\ pc["t1"] = "idle"
  /\ IF ret["t1"] = "ok"
     THEN /\ stagePc' = "compute"
          /\ UNCHANGED status
     ELSE /\ stagePc' = "idle"
          /\ status' = ret["t1"]
  /\ UNCHANGED <<pool, mutex, call, pc, ret, lockers, inserted, got>>
  /\ UNCHANGED <<windows, offset, frameSize, hopSize, shouldStop, pushed, batches, emitted, reused>>

\* a plausible slip: the result is computed but never pushed on the output
processCompute_noPush ==
  /\ stagePc = "compute"
  /\ batches' = Append(batches, pool["VectorReal"][StageKey])
  /\ status' = "OK"
  /\ stagePc' = "idle"
  /\ UNCHANGED <<pool, mutex, call, pc, ret, lockers, inserted, got>>
  /\ UNCHANGED <<windows, offset, frameSize, hopSize, shouldStop, pushed, emitted, reused>>

\* a plausible slip: process() empties the buffer once the batch is computed
processCompute_drains ==
  /\ stagePc = "compute"
  /\ LET bands == pool["VectorReal"][StageKey] IN
       /\ batches' = Append(batches, bands)
       /\ emitted' = Append(emitted, compute(bands, frameSize, hopSize))
       /\ windows' = windows \o rhythmFrames(bands, frameSize, hopSize)
  /\ status' = "OK"
  /\ stagePc' = "idle"
  /\ pool' = EmptyPool
  /\ inserted' = [n \in AllNames |-> <<>>]
  /\ UNCHANGED <<mutex, call, pc, ret, lockers, got>>
  /\ UNCHANGED <<offset, frameSize, hopSize, shouldStop, pushed, reused>>

\* rhythmtransform.cpp:133-141: the batch computation on the referenced
\* vector, one token pushed on the output, return OK
processCompute ==
  /\ stagePc = "compute"
  /\ LET bands == pool["VectorReal"][StageKey] IN
       /\ batches' = Append(batches, bands)
       /\ emitted' = Append(emitted, compute(bands, frameSize, hopSize))
       /\ windows' = windows \o rhythmFrames(bands, frameSize, hopSize)
  /\ status' = "OK"
  /\ stagePc' = "idle"
  /\ UNCHANGED <<pool, mutex, call, pc, ret, lockers, inserted, got>>
  /\ UNCHANGED <<offset, frameSize, hopSize, shouldStop, pushed, reused>>

\* a plausible slip: reset() without _pool.clear()
reset_noClear ==
  /\ stagePc = "idle"
  /\ shouldStop' = FALSE
  /\ stagePc' = "reset"
  /\ UNCHANGED <<pool, mutex, call, pc, ret, lockers, inserted, got>>
  /\ UNCHANGED <<windows, offset, frameSize, hopSize, status, pushed, batches, emitted, reused>>

\* rhythmtransform.cpp:144-148: AlgorithmComposite::reset() (the stage is
\* ready for a new stream), _rhythmAlgo->reset(), then _pool.clear()
reset ==
  /\ stagePc = "idle"
  /\ shouldStop' = FALSE
  /\ PoolCall(Call("clear", "all", <<>>, <<>>))
  /\ stagePc' = "reset"
  /\ UNCHANGED <<windows, offset, frameSize, hopSize, status, pushed, batches, emitted, reused>>

\* clear() has returned: the stage starts a new cycle
resetDone ==
  /\ stagePc = "reset"
  /\ pc["t1"] = "idle"
  /\ stagePc' = "idle"
  /\ status' = "none"
  /\ pushed' = <<>>
  /\ batches' = <<>>
  /\ emitted' = <<>>
  /\ windows' = <<>>
  /\ reused' = TRUE
  /\ UNCHANGED <<pool, mutex, call, pc, ret, lockers, inserted, got>>
  /\ UNCHANGED <<offset, frameSize, hopSize, shouldStop>>

\* the steps of the stage's thread inside the pool calls the stage makes
StagePoolStep ==
  \/ FastLock("t1") /\ UNCHANGED stageVars
  \/ addFast("t1") /\ UNCHANGED stageVars
  \/ addSlow("t1") /\ UNCHANGED stageVars
  \/ lookupFast("t1") /\ UNCHANGED stageVars
  \/ GlobalLock("t1") /\ UNCHANGED stageVars
  \/ clear("t1") /\ UNCHANGED stageVars
  \/ Unwind("t1") /\ UNCHANGED stageVars

StageNext ==
  \/ \E frame \in Frames : push(frame)
  \/ pushDone
  \/ endOfStream
  \/ processPass
  \/ processValue
  \/ processValueDone
  \/ processCompute
  \/ reset
  \/ resetDone
  \/ StagePoolStep

StageSpec == StageInit /\ [][StageNext]_vars

\* The calls the concurrent callers draw from: one name, one value per type,
\* seven of the nine types, appends of one element, lookups of two types.
ConcCalls == {c \in CallsOf({<<"foo">>}, [k \in Kinds |-> {CHOOSE v \in ElemOf(k) : TRUE}], {"Real", "VectorReal"}) : c.kind \notin {"VectorString", "StereoSample"} /\ (c.op = "append" => Len(c.arg) = 1)}

\* The store used by two threads at once.
ConcNext ==
  \/ \E t \in Threads, c \in ConcCalls : Begin(t, c) /\ UNCHANGED stageVars
  \/ \E t \in Threads : Step(t) /\ UNCHANGED stageVars

ConcSpec == Init /\ [][ConcNext]_vars

\* The calls of the fair specification: those of four types, whose mutexes
\* are the first, the second, a middle one and the last of GLOBAL_LOCK.
FairCalls == {c \in ConcCalls : c.kind \in {"all", "Real", "VectorReal", "Array2DReal", "SingleVectorReal"} /\ (c.op = "append" => Len(c.arg) = 1)}

FairNext ==
  \/ \E t \in Threads, c \in FairCalls : Begin(t, c) /\ UNCHANGED stageVars
  \/ \E t \in Threads : Step(t) /\ UNCHANGED stageVars

\* Two threads under a fair scheduler and fair mutexes: a thread that can take
\* a step again and again, or whose mutex is free again and again, gets on.
FairSpec == Init /\ [][FairNext]_vars /\ \A t \in Threads : SF_vars(Step(t) /\ UNCHANGED stageVars)

\* at most this many values are appended by the two producers together
MaxAppended == 4

\* the sequences each of the two producers appends: no value is handed over
\* by both
Produced == [t \in Threads |-> IF t = "t1" THEN {<<1>>, <<1, 2>>} ELSE {<<3>>, <<3, 4>>}]

\* a producer calls append<Real>("foo", values)
beginAppend(t, values) ==
  /\ pc[t] = "idle"
  /\ Stored(pool) + InFlight + Len(values) <= MaxAppended
  /\ call' = [call EXCEPT ![t] = Call("append", "Real", <<"foo">>, values)]
  /\ pc' = [pc EXCEPT ![t] = "fastLock"]
  /\ ret' = [ret EXCEPT ![t] = "none"]
  /\ UNCHANGED <<pool, mutex, lockers, inserted, got>>

\* Two producers appending to one name of one pool at once.
AppendNext ==
  \/ \E t \in Threads : \E values \in Produced[t] : beginAppend(t, values) /\ UNCHANGED stageVars
  \/ \E t \in Threads : FastLock(t) /\ UNCHANGED stageVars
  \/ \E t \in Threads : appendFast(t) /\ UNCHANGED stageVars
  \/ \E t \in Threads : GlobalLock(t) /\ UNCHANGED stageVars
  \/ \E t \in Threads : appendSlow(t) /\ UNCHANGED stageVars
  \/ \E t \in Threads : Unwind(t) /\ UNCHANGED stageVars

AppendSpec == Init /\ [][AppendNext]_vars

(***************************************************************************)
(* The properties checked.                                                 *)
(***************************************************************************)
Errors == {"TypeConflict", "NamespaceConflict", "AlreadyAccumulated", "NotFound", "InvalidValue", "DuplicateKind", "Unsupported"}

SubPoolsOf(n) == {k \in Kinds : Has(pool, k, n)}

TypeExclusive == \A n \in AllNames : Cardinality(SubPoolsOf(n)) <= 1

\* the step in which the add, set or append call of thread t succeeds or fails
Decides(t) == call[t].op \in {"add", "set", "append"} /\ ret[t] = "none" /\ ret'[t] # "none"

C1_Step(t) ==
  Decides(t) =>
    /\ (SubPoolsOf(call[t].name) \ {call[t].kind} # {}) => ret'[t] \in Errors
    /\ ret'[t] \in Errors => pool' = pool

Idx(k) == CHOOSE i \in 1..Len(DocumentedLockOrder) : DocumentedLockOrder[i] = k

OrderPrefix(m) == {DocumentedLockOrder[i] : i \in 1..m}

C2_State ==
  \A t \in Threads :
    /\ Cardinality(Held(t)) > 1 => Held(t) = OrderPrefix(Cardinality(Held(t)))
    /\ Cardinality(Held(t)) > 1 => pc[t] \in {"global", "locked", "unwind"}
    /\ pc[t] = "locked" => Held(t) = Kinds

C2_Step ==
  \A t \in Threads : \A k \in Kinds :
    /\ (mutex[k] # t /\ mutex'[k] = t) => \A h \in Held(t) : Idx(h) < Idx(k)
    /\ (mutex[k] = t /\ mutex'[k] # t) => \A h \in Held(t) : Idx(h) <= Idx(k)

\* C2: a thread that holds more than one mutex is inside GLOBAL_LOCK and
\* holds a prefix of the documented order (so it takes all nine in that
\* order and gives them back in the reverse order); no thread takes a mutex
\* that comes before one it holds, and it always releases the last one taken.
C2_LockOrder == []C2_State /\ [][C2_Step]_vars

\* C2 witness: a thread holds all nine mutexes while the other waits for one
C2_Witness == \E t \in Threads : Held(t) = Kinds /\ \E u \in Threads \ {t} : pc[u] = "fastLock"

\* the mutex thread t is about to take
Wants(t) ==
  CASE pc[t] = "fastLock" -> {call[t].kind}
    [] pc[t] = "secondLock" -> {"SingleVectorReal"}
    [] pc[t] = "global" -> {GLOBAL_LOCK[lockers[t] + 1]}
    [] OTHER -> {}

BlockedBy(t, u) == \E k \in Wants(t) : mutex[k] = u

NoWaitCycle == \A S \in (SUBSET Threads) \ {{}} : \E t \in S : \A u \in S : ~BlockedBy(t, u)

\* C3: no set of threads ever waits in a cycle for mutexes held within the
\* set, and under fair scheduling every call that was started returns.
C3_NoDeadlock == []NoWaitCycle /\ \A t \in Threads : (pc[t] # "idle") ~> (pc[t] = "idle")

\* C3 witness: a thread waits for a mutex the other one holds inside GLOBAL_LOCK
C3_Witness == \E t \in Threads : \E u \in Threads \ {t} : BlockedBy(t, u) /\ pc[u] = "global" /\ pc[t] = "fastLock"


\* the first process() call after the end of the stream has returned or thrown
FirstProcessDone == stagePc = "idle" /\ shouldStop /\ status \notin {"none", "PASS"}

C5_State == (~shouldStop /\ stagePc # "reset") => (stagePc \in {"idle", "push"} /\ status \in {"none", "PASS"} /\ batches = <<>> /\ emitted = <<>>)

C5_Step == (~shouldStop /\ stagePc = "idle" /\ status' # status) => (status' = "PASS" /\ stagePc' = "idle" /\ pool' = pool /\ batches' = batches /\ emitted' = emitted)

\* C5: as long as the end of the stream is not signalled, a process() call
\* returns PASS and changes neither the pool nor the batches nor the output,
\* and the stage never is inside the lookup or the batch computation.
C5_PassUntilEnd == []C5_State /\ [][C5_Step]_vars

\* C5 witness: process() has returned PASS with two frames buffered
C5_Witness == ~shouldStop /\ stagePc = "idle" /\ status = "PASS" /\ Len(pushed) >= 2

\* C6: the input of the batch computation is the sequence of the frames
\* pushed since the stage was created or reset, in the order of the pushes;
\* between two pushes the buffer holds exactly these frames.
C6_BatchIsPushed ==
  /\ batches # <<>> => (pushed # <<>> /\ batches = <<pushed>>)
  /\ (stagePc \in {"idle", "value", "compute"} /\ pushed # <<>>) => (Has(pool, "VectorReal", StageKey) /\ pool["VectorReal"][StageKey] = pushed)

\* C6 witness: a batch of two different frames
C6_Witness == batches = <<pushed>> /\ Len(pushed) >= 2 /\ pushed[1] # pushed[2]

C7_Step == (stagePc = "reset" /\ stagePc' = "idle") => pool' = EmptyPool

\* C7: when reset() returns the pool of the stage is empty, and whenever
\* process() has returned OK the token on the output is the transform of the
\* frames pushed since the last reset (since the creation for a fresh stage).
C7_ResetForgets == [][C7_Step]_vars /\ [](status = "OK" => emitted = <<compute(pushed, frameSize, hopSize)>>)

\* C7 witness: a stage that was reset has returned OK on a non-empty buffer
C7_Witness == reused /\ status = "OK" /\ stagePc = "idle" /\ pushed # <<>>

\* the values an accumulating insert hands over
ValuesOf(c) == IF c.op = "add" THEN <<c.arg>> ELSE c.arg

C8_State == \A k \in AccKinds : \A n \in AllNames : Has(pool, k, n) => pool[k][n] = inserted[n]

C8_Step(t) ==
  (call[t].op \in {"add", "append"} /\ ret[t] = "none" /\ ret'[t] = "ok") =>
    LET k == call[t].kind
        n == call[t].name
        old == IF Has(pool, k, n) THEN pool[k][n] ELSE <<>>
    IN  pool' = Put(pool, k, n, old \o ValuesOf(call[t]))

\* C8: what the value lookup returns for a name of an accumulating type is
\* the sequence of the values the successful add and append calls handed
\* over, in the order of the calls; every such call puts its values behind
\* the stored ones and changes nothing else.
C8_AccumulationOrder == []C8_State /\ [][\A t \in Threads : C8_Step(t)]_vars

\* C8 witness: an append has put a second, different value behind the first
C8_Witness == Has(pool, "Real", <<"foo">>) /\ pool["Real"][<<"foo">>] = <<1, 2>> /\ ret["t1"] = "ok" /\ pc["t1"] = "idle"

NamespaceExclusive == \A n \in descriptorNamesNoLocking(pool) : \A m \in descriptorNamesNoLocking(pool) : ~IsStrictPrefix(n, m)

C9_Step(t) ==
  (Decides(t) /\ \E m \in descriptorNamesNoLocking(pool) : IsStrictPrefix(call[t].name, m) \/ IsStrictPrefix(m, call[t].name)) =>
    /\ ret'[t] = IF Entry(call[t]) = "generic" THEN "Unsupported" ELSE "NamespaceConflict"
    /\ pool' = pool

\* C9: no name that holds a value is a namespace of another name that holds
\* one; an insert under a name that is a namespace or a child of a stored
\* name fails with NamespaceConflict and leaves the pool as it was.
C9_NamespaceExclusivity == []NamespaceExclusive /\ [][\A t \in Threads : C9_Step(t)]_vars

\* C9 witness: an insert under "foo" has failed while "foo.bar" holds a value
C9_Witness == ret["t1"] = "NamespaceConflict" /\ call["t1"].op \in {"add", "set", "append"} /\ call["t1"].name = <<"foo">> /\ <<"foo", "bar">> \in descriptorNamesNoLocking(pool)

C10_Step(t) ==
  (call[t].op = "set" /\ ret[t] = "none" /\ ret'[t] # "none") =>
    LET k == call[t].kind
        n == call[t].name
    IN  /\ (\E a \in AccKinds : Has(pool, a, n)) => (ret'[t] = "AlreadyAccumulated" /\ pool' = pool)
        /\ Has(pool, k, n) => (ret'[t] = "ok" /\ pool' = Put(pool, k, n, call[t].arg) /\ pool'[k][n] = call[t].arg)

\* C10: set() on a name that holds accumulated data fails with
\* AlreadyAccumulated and leaves every sub-pool as it was; set() on a name
\* that holds a single value of the same type replaces that value.
C10_SetAfterAdd == [][\A t \in Threads : C10_Step(t)]_vars

\* C10 witness: set() has failed on a name that holds accumulated data
C10_Witness == ret["t1"] = "AlreadyAccumulated" /\ call["t1"].op = "set" /\ \E a \in AccKinds : Has(pool, a, call["t1"].name)

C11_Step(t) ==
  (call[t].op = "value" /\ call[t].kind = "Real" /\ ret[t] = "none" /\ ret'[t] # "none") =>
    LET n == call[t].name
    IN  /\ pool' = pool
        /\ IF Has(pool, "Real", n) THEN ret'[t] = "ok" /\ got'[t] = pool["Real"][n]
           ELSE IF Has(pool, "SingleVectorReal", n) THEN ret'[t] = "ok" /\ got'[t] = pool["SingleVectorReal"][n]
           ELSE ret'[t] = "NotFound" /\ got'[t] = <<>>

\* C11: value<vector<Real> >(name) returns the vector of _poolReal if the name
\* is there, else the vector of _poolSingleVectorReal if the name is there,
\* and throws NotFound only if the name is in neither; the call leaves the
\* pool as it was.
C11_VectorRealLookup == [][\A t \in Threads : C11_Step(t)]_vars

\* C11 witness: the lookup has returned the vector set under "foo"
C11_Witness == Has(pool, "SingleVectorReal", <<"foo">>) /\ ret["t1"] = "ok" /\ pc["t1"] = "idle" /\ got["t1"] = pool["SingleVectorReal"][<<"foo">>]

\* a merge call is about to end
MergeDecides(t) == call[t].op \in {"merge", "mergePool"} /\ ret[t] = "none" /\ ret'[t] # "none"

\* the call merges one descriptor: merge(name, value, type), or merge(p, type)
\* with a pool p of one descriptor
MergesOne(c) == c.op = "merge" \/ (c.op = "mergePool" /\ Len(EntriesOf(c.arg)) = 1)

\* the type, the name and the vector of that descriptor
SoleEntry(c) ==
  IF c.op = "merge" THEN <<c.kind, c.name, c.arg>>
  ELSE LET e == EntriesOf(c.arg)[1] IN <<e[1], e[2], c.arg[e[1]][e[2]]>>

C12_Step(t) ==
  (MergeDecides(t) /\ MergesOne(call[t]) /\ call[t].policy = "append") =>
    LET k == SoleEntry(call[t])[1]
        n == SoleEntry(call[t])[2]
        v == SoleEntry(call[t])[3]
    IN  /\ Remove(pool', n) = Remove(pool, n)
        /\ IF Has(pool, k, n)
           THEN /\ ret'[t] = "ok"
                /\ Has(pool', k, n)
                /\ Len(pool'[k][n]) = Len(pool[k][n]) + Len(v)
                /\ \A i \in 1..Len(pool[k][n]) : pool'[k][n][i] = pool[k][n][i]
                /\ \A j \in 1..Len(v) : pool'[k][n][Len(pool[k][n]) + j] = v[j]
           ELSE IF n \in descriptorNamesNoLocking(pool)
           THEN ret'[t] = "TypeConflict" /\ pool' = pool
           ELSE ret'[t] = "ok" /\ pool' = Put(pool, k, n, v)

\* C12: a merge of type "append" puts the new elements behind the stored ones
\* if the descriptor exists with the same type, fails with TypeConflict and
\* leaves the pool as it was if it exists with another type, and adds the
\* descriptor with the new elements if it does not exist.
C12_MergeAppend == [][\A t \in Threads : C12_Step(t)]_vars

\* C12 witness: [1,2] was merged behind the stored [2,1]
C12_Witness == call["t1"].op = "merge" /\ call["t1"].policy = "append" /\ call["t1"].kind = "Real" /\ ret["t1"] = "ok" /\ call["t1"].arg = <<1, 2>> /\ Has(pool, "Real", <<"foo">>) /\ pool["Real"][<<"foo">>] = <<2, 1, 1, 2>>

C13_Step(t) ==
  (MergeDecides(t) /\ MergesOne(call[t]) /\ call[t].policy = "interleave" /\ Has(pool, SoleEntry(call[t])[1], SoleEntry(call[t])[2])) =>
    LET k == SoleEntry(call[t])[1]
        n == SoleEntry(call[t])[2]
        new == SoleEntry(call[t])[3]
        old == pool[k][n]
        m == IF Len(old) <= Len(new) THEN Len(old) ELSE Len(new)
    IN  /\ ret'[t] = "ok"
        /\ Remove(pool', n) = Remove(pool, n)
        /\ Has(pool', k, n)
        /\ Len(pool'[k][n]) = Len(old) + Len(new)
        /\ \A i \in 1..m : pool'[k][n][2 * i - 1] = old[i] /\ pool'[k][n][2 * i] = new[i]
        /\ \A i \in (m + 1)..Len(old) : pool'[k][n][m + i] = old[i]
        /\ \A i \in (m + 1)..Len(new) : pool'[k][n][m + i] = new[i]

\* C13: a merge of type "interleave" into a descriptor of the same type leaves
\* a vector as long as both together: one stored element, one new element,
\* and so on, and what is left of the longer one at the end.
C13_MergeInterleave == [][\A t \in Threads : C13_Step(t)]_vars

\* C13 witness: [2] was interleaved with the stored [1,1]
C13_Witness == call["t1"].op = "merge" /\ call["t1"].policy = "interleave" /\ call["t1"].kind = "Real" /\ ret["t1"] = "ok" /\ call["t1"].arg = <<2>> /\ Has(pool, "Real", <<"foo">>) /\ pool["Real"][<<"foo">>] = <<1, 2, 1>>

\* the descriptors the call hands over, as a pool
Handed(c) == IF c.op = "merge" THEN PoolOf({<<c.kind, c.name, c.arg>>}) ELSE c.arg

C14_Step(t) ==
  (MergeDecides(t) /\ call[t].policy = "") =>
    LET other == Handed(call[t])
        held == descriptorNamesNoLocking(other) \cap descriptorNamesNoLocking(pool)
    IN  /\ \A k \in Kinds : \A n \in DOMAIN pool[k] : Has(pool', k, n) /\ pool'[k][n] = pool[k][n]
        /\ descriptorNamesNoLocking(pool') \subseteq descriptorNamesNoLocking(pool) \cup descriptorNamesNoLocking(other)
        /\ \A k \in Kinds : \A n \in (DOMAIN pool'[k]) \ descriptorNamesNoLocking(pool) : Has(other, k, n) /\ pool'[k][n] = other[k][n]
        /\ IF held = {}
           THEN ret'[t] = "ok" /\ descriptorNamesNoLocking(other) \subseteq descriptorNamesNoLocking(pool')
           ELSE ret'[t] = "ContractViolation"

C15_Step(t) ==
  (call[t].op = "append" /\ call[t].kind \notin AppendKinds /\ ret[t] = "none" /\ ret'[t] # "none") =>
    (ret'[t] = "Unsupported" /\ pool' = pool /\ mutex' = mutex /\ Held(t) = {})

\* C15: append of a vector of Array2D<Real>, the one accumulating type
\* without a specialization, throws Unsupported whatever the pool holds and
\* whatever the name is, and leaves every sub-pool as it was.
C15_AppendUnsupported == [][\A t \in Threads : C15_Step(t)]_vars /\ [](\A t \in Threads : pc[t] = "generic" => (call[t].op = "append" /\ call[t].kind = "Array2DReal"))

\* C15 witness: the append has failed on a pool that holds MaxElems elements
C15_Witness == ret["t1"] = "Unsupported" /\ pc["t1"] = "idle" /\ Stored(pool) = MaxElems /\ Has(pool, "Array2DReal", <<"foo">>)

\* C16 as stated: every entry of the output holds one squared spectrum of
\* frameSize/2+1 bins for each band, nBands * (frameSize/2+1) bins in all.
C16_Original == (stagePc = "computed") => \A w \in 1..Len(emitted[1]) : Len(emitted[1][w]) = Len(pushed[1]) * ((frameSize \div 2) + 1)

\* the derivative of band b at frame index f (from 0): 0 at the first frame,
\* else the difference to the frame before
Derivative(b, f) == IF f = 0 THEN 0 ELSE pushed[f + 1][b] - pushed[f][b]

Covered(f) == \E w \in 1..Len(windows) : windows[w].i <= f /\ f < windows[w].i + frameSize

C19_EmptyStream == (FirstProcessDone /\ pushed = <<>>) => (status = "NotFound" /\ batches = <<>> /\ emitted = <<>> /\ windows = <<>> /\ pool = EmptyPool)

\* C19 witness: process() has thrown on an empty stream after a reset
C19_Witness == reused /\ FirstProcessDone /\ pushed = <<>> /\ status = "NotFound"

\* C20 as stated: process() never ends with a failure of the pool.
C20_Original == status \notin Errors

\* What process() does instead (C20): it ends with a failure of the pool
\* exactly if no frame was pushed since the stage was created or reset, and
\* then with NotFound; after at least one push it returns OK.
C20_OnlyNotFoundWhenEmpty ==
  /\ status \in Errors => (status = "NotFound" /\ pushed = <<>>)
  /\ (FirstProcessDone /\ pushed # <<>>) => status = "OK"
  /\ (stagePc = "value" /\ pc["t1"] = "idle" /\ pushed # <<>>) => ret["t1"] = "ok"

\* C20: process() has thrown NotFound in the first cycle of a stage
C20_Failure == ~reused /\ FirstProcessDone /\ status = "NotFound" /\ pushed = <<>>

\* the stage is inside the batch computation: value() has returned the
\* buffered sequence and the result is not yet pushed on the output
Computing == stagePc = "compute"

C21_State == Computing => (pc["t1"] = "idle" /\ Held("t1") = {} /\ lockers["t1"] = 0)

C21_Step == Computing => (mutex' = mutex /\ pc' = pc /\ lockers' = lockers /\ ~Computing')

\* C21: from the moment process() has read the buffered sequence until the
\* result is emitted, the stage's thread is in no pool call and holds none of
\* the nine mutexes of the pool, and the batch computation takes none.
C21_NoLockWhileComputing == []C21_State /\ [][C21_Step]_vars

\* C21 witness: the batch computation is about to run on two or more frames
\* and every mutex of the pool is free
C21_Witness == Computing /\ Len(pushed) >= 2 /\ \A k \in Kinds : mutex[k] = "free"

\* thread t is inside add, or inside append of a type SPECIALIZE_APPEND is
\* instantiated for
Inserting(t) == call[t].op = "add" \/ (call[t].op = "append" /\ call[t].kind \in AppendKinds)

\* the mutexes thread t locks in a step
Acquires(t) == {k \in Kinds : mutex[k] # t /\ mutex'[k] = t}

C22_Step(t) ==
  Inserting(t) =>
    /\ (pc[t] = "fastLock" /\ Acquires(t) # {}) => (Acquires(t) = {call[t].kind} /\ Held(t) = {})
    /\ (pc[t] = "fast" /\ pc'[t] # "fast") =>
          /\ \A k \in Kinds : mutex'[k] # t
          /\ IF Has(pool, call[t].kind, call[t].name)
             THEN pc'[t] = "idle" /\ ret'[t] = "ok"
             ELSE pc'[t] = "global" /\ ret'[t] = "none" /\ pool' = pool
    /\ (pc[t] # "fastLock" /\ Acquires(t) # {}) =>
          /\ pc[t] = "global"
          /\ Held(t) = OrderPrefix(Cardinality(Held(t)))
          /\ Acquires(t) = {DocumentedLockOrder[Cardinality(Held(t)) + 1]}
    /\ (ret[t] = "none" /\ ret'[t] # "none" /\ pc[t] # "fast") => (pc[t] = "locked" /\ Held(t) = Kinds)

C23_Derivative ==
  (stagePc = "computed") =>
    LET nFrames == Len(pushed)
        nBands == Len(pushed[1])
        D == bandsDerivative(pushed)
    IN  /\ Len(D) = nBands
        /\ \A b \in 1..nBands :
             /\ Len(D[b]) = nFrames
             /\ D[b][1] = 0
             /\ \A i \in 1..(nFrames - 1) : D[b][i + 1] = pushed[i + 1][b] - pushed[i][b]
             /\ hopSize = 1 => \A i \in 0..(nFrames - 1) : windows[i + 1].frame[b][1] = D[b][i + 1]
        /\ pushed = Scenario => D = <<<<0, 1, 2, 0>>, <<0, 0, 0, 0>>, <<0, 0, 2, 0>>>>

\* C23 witness: compute() has run on the frames of the scenario with hopSize
\* 1, and the window at offset 2 starts with 2 for band 0 and 0 for band 1
C23_Witness == stagePc = "computed" /\ pushed = Scenario /\ hopSize = 1 /\ Len(windows) = 4 /\ windows[3].frame[1][1] = 2 /\ windows[3].frame[2][1] = 0

\* the values stored under "foo" in _poolReal
StoredFoo == IF Has(pool, "Real", <<"foo">>) THEN pool["Real"][<<"foo">>] ELSE <<>>

\* an append call of thread t returns without error in this step
AppendReturns(t) == call[t].op = "append" /\ ret[t] = "none" /\ ret'[t] = "ok"

C24_Step(t) ==
  /\ AppendReturns(t) => (pool' = Put(pool, "Real", <<"foo">>, StoredFoo \o call[t].arg) /\ inserted'[<<"foo">>] = inserted[<<"foo">>] \o call[t].arg)
  /\ ~AppendReturns(t) /\ (\A u \in Threads \ {t} : ~AppendReturns(u)) => pool' = pool

C24_Race == \E t \in Threads : pc[t] = "locked" /\ call[t].op = "append" /\ StoredFoo # <<>>

InLoop == stagePc = "loop"

C25_State ==
  /\ InLoop => (offset = Len(windows) * hopSize /\ (offset > 0 => offset - hopSize < Len(pushed)))
  /\ (stagePc = "computed") => (offset >= Len(pushed) /\ offset - hopSize < Len(pushed) /\ emitted = <<compute(pushed, frameSize, hopSize)>>)

C25_Step == (InLoop /\ InLoop') => (offset < Len(pushed) /\ offset' = offset + hopSize /\ offset' > offset)

\* C25: compute() returns for every input of at least one frame and every
\* positive frameSize and hopSize: every run of the loop body raises the
\* offset of the window by hopSize, the body runs only while the offset is
\* below nFrames, and the loop is left with the first offset that is not.
C25_Terminates == []C25_State /\ [][C25_Step]_vars /\ (InLoop ~> (stagePc = "computed"))

\* C25 witness: the loop has ended after two runs of its body, at offsets 0
\* and 3, with an offset that passed nFrames without being equal to it
C25_Witness == stagePc = "computed" /\ Len(pushed) = 4 /\ hopSize = 3 /\ frameSize = 4 /\ offset = 6 /\ Len(windows) = 2

\* the sequence stored under the key of the stage's buffer
Buffer == IF Has(pool, "VectorReal", StageKey) THEN pool["VectorReal"][StageKey] ELSE <<>>

\* a step of process(): its return of PASS, its lookup of the buffer, the
\* batch computation and its return of OK or of the failure of the lookup
InProcess ==
  \/ stagePc \in {"value", "compute"}
  \/ stagePc' = "value"
  \/ stagePc = "idle" /\ stagePc' = "idle" /\ status' # status

C26_Step ==
  /\ InProcess => (pool' = pool /\ pushed' = pushed)
  /\ (Buffer # <<>> /\ ~Has(pool', "VectorReal", StageKey)) => (stagePc = "reset" /\ call["t1"].op = "clear")

C26_State == (stagePc = "idle" /\ status \in {"PASS", "OK"}) => (Buffer = pushed /\ (status = "OK" => batches = <<Buffer>>))

\* C26: no step of process() changes the pool: when process() has returned
\* PASS or OK the buffer holds the frames pushed so far, as before the call;
\* a stage that has emitted still holds its whole batch, and the buffer is
\* emptied by the clear() of reset() only.
C26_ProcessKeepsBuffer == []C26_State /\ [][C26_Step]_vars

\* C26 witness: process() has returned OK in the second cycle of a stage and
\* the buffer still holds the MaxFrames frames of the batch
C26_Witness == reused /\ stagePc = "idle" /\ status = "OK" /\ Len(Buffer) = MaxFrames /\ Buffer = pushed /\ Len(emitted) = 1

====
